---- MODULE Spec2Model ----
(***************************************************************************)
(* Model of the Chinese Restaurant Process generator                       *)
(* (src/src/chinese_restaurant_process.py) and of the mixture sampler that *)
(* inherits from it (src/src/chinese_restaurant_mixture.py).               *)
(*                                                                         *)
(* One object of class ChineseRestaurantMixture is modelled; it carries    *)
(* the fields of ChineseRestaurantProcess (alpha, tables, history, n) and  *)
(* its own (datapoints).  A Python dict is a sequence of [key, val]        *)
(* records in insertion order.  Real numbers are exact fractions           *)
(* <<numerator, denominator>>.  The loop of iter() is followed one         *)
(* iteration at a time through pc and todo.                                *)
(***************************************************************************)
EXTENDS Integers, Sequences, FiniteSets, Bags, TLC

\* ---------------------------------------------------------------- bounds
\* Largest number of customers seated over the object's lifetime.
MaxCustomers == 3

\* Animations that wait for frames at the same time.
MaxAnims == 2

\* Concentration parameters a caller passes that the documentation allows
\* (alpha > 0), as fractions <<num, den>>.
AlphaPos == { <<1, 2>>, <<1, 1>> }

\* Every number a caller can pass to the constructor, which does not look at it.
AlphaAny == AlphaPos \cup { <<0, 1>>, <<-1, 1>>, <<-1, 2>> }

\* Values np.random.random() returns, all in [0, 1), as fractions.
UVals == { <<0, 1>>, <<1, 3>>, <<1, 2>>, <<3, 4>> }

\* Values the caller's param_prior returns.
ParamVals == { 1, 2 }

\* The randomness inside the caller's sampler.
Noise == { 1 }

\* ------------------------------------------------------- general helpers
RECURSIVE SumSeq(_)
SumSeq(s) == IF s = <<>> THEN 0 ELSE Head(s) + SumSeq(Tail(s))

Range(s) == { s[i] : i \in 1..Len(s) }

IsPrefix(s, t) == /\ Len(s) <= Len(t)
                  /\ \A i \in 1..Len(s) : s[i] = t[i]

\* ------------------------------------------------------------ Python dict
\* A dict is a sequence of [key |-> k, val |-> v] in insertion order.
DictKeys(d) == [i \in 1..Len(d) |-> d[i].key]

DictHas(d, k) == \E i \in 1..Len(d) : d[i].key = k

DictGet(d, k) == d[CHOOSE i \in 1..Len(d) : d[i].key = k].val

\* d[k] = v: an existing key keeps its place, a new key goes last.
DictSet(d, k, v) ==
    IF DictHas(d, k)
    THEN [i \in 1..Len(d) |-> IF d[i].key = k THEN [key |-> k, val |-> v] ELSE d[i]]
    ELSE Append(d, [key |-> k, val |-> v])

\* ------------------------------------------------------------- the state
VARIABLES
    alpha,        \* self.alpha, a fraction <<num, den>>
    tables,       \* self.tables: dict table id -> sequence of customers
    history,      \* self.history: list of dicts table id -> size
    n,            \* self.n
    datapoints,   \* self.datapoints: [isNone, arr]
    pc,           \* where the running call stands: "idle", "iter", "generate"
    todo,         \* iterations the loop of iter() still has to run
    call,         \* the running call and its arguments: [op, arg, reset]
    last,         \* name of the last call that ended
    err,          \* exception the last call ended with, "none" if it returned
    ret,          \* what the last call returned
    priorCalls,   \* calls of param_prior by the running or last call: [idx, param]
    samplerCalls, \* calls of sampler by the running or last call: [pos, param, out]
    anims         \* the animations animate() returned that have frames left
                  \* to draw, oldest first: [frames, names, drawn, next] each

vars == << alpha, tables, history, n, datapoints, pc, todo, call, last, err, ret,
           priorCalls, samplerCalls, anims >>

genVars == << alpha, tables, history, n >>

NoneDP == [isNone |-> TRUE, arr |-> <<>>]

NoRet == [kind |-> "None"]

NoCall == [op |-> "none", arg |-> 0, reset |-> FALSE]

\* ------------------------------------------------------------ the queries
get_table_names(t) == DictKeys(t)

get_table_sizes(t) == [i \in 1..Len(t) |-> Len(t[i].val)]

get_table_dict(t) == [i \in 1..Len(t) |-> [key |-> t[i].key, val |-> Len(t[i].val)]]

\* get_wts that divides the table sizes by n.
get_wts_by_n(a, nn, t) ==
    LET sizes == get_table_sizes(t)
        den   == (nn - 1) * a[2] + a[1]
    IN  [ raises |-> (den = 0),
          new    |-> << a[1], den >>,
          probs  |-> [i \in 1..Len(sizes) |-> << sizes[i], nn >>] ]

\* get_wts with n in place of n - 1 in the weight of a new table.
get_wts_n(a, nn, t) ==
    LET sizes == get_table_sizes(t)
        total == SumSeq(sizes)
        den   == nn * a[2] + a[1]
    IN  [ raises |-> (den = 0),
          new    |-> << a[1], den >>,
          probs  |-> [i \in 1..Len(sizes) |-> << sizes[i], total >>] ]

\* get_wts: alpha / (n - 1 + alpha) and table_sizes / sum(table_sizes).
\* With alpha = a/b the first is a / ((n - 1) * b + a); Python raises
\* ZeroDivisionError when that denominator is 0.  The array division is
\* elementwise, so an empty array of sizes gives an empty array.
get_wts(a, nn, t) ==
    LET sizes == get_table_sizes(t)
        total == SumSeq(sizes)
        den   == (nn - 1) * a[2] + a[1]
    IN  [ raises |-> (den = 0),
          new    |-> << a[1], den >>,
          probs  |-> [i \in 1..Len(sizes) |-> << sizes[i], total >>] ]

\* u <= p for fractions u = <<un, ud>> (ud > 0) and p = <<pn, pd>> (pd # 0).
LeqFrac(u, p) == IF p[2] > 0 THEN u[1] * p[2] <= p[1] * u[2]
                 ELSE u[1] * p[2] >= p[1] * u[2]


\* ------------------------------------------------------------------ iter
\* Number of values in np.arange(niter).
ArangeLen(niter) == IF niter > 0 THEN niter ELSE 0

\* step that seats customer n + 1 at a new table.
step_next_index(a, t, nn, u, sel) ==
    LET w == get_wts(a, nn, t)
    IN  IF w.raises
        THEN [exc |-> "ZeroDivisionError", tables |-> t, n |-> nn]
        ELSE IF LeqFrac(u, w.new)
        THEN [exc |-> "none", tables |-> DictSet(t, Len(t), << nn + 1 >>), n |-> nn + 1]
        ELSE IF Len(t) = 0
        THEN [exc |-> "ValueError", tables |-> t, n |-> nn]
        ELSE IF ~ DictHas(t, sel)
        THEN [exc |-> "KeyError", tables |-> t, n |-> nn]
        ELSE [exc |-> "none",
              tables |-> DictSet(t, sel, Append(DictGet(t, sel), nn)),
              n |-> nn + 1]

\* step that increments n in the new-table branch only.
step_incr_in_if(a, t, nn, u, sel) ==
    LET w == get_wts(a, nn, t)
    IN  IF w.raises
        THEN [exc |-> "ZeroDivisionError", tables |-> t, n |-> nn]
        ELSE IF LeqFrac(u, w.new)
        THEN [exc |-> "none", tables |-> DictSet(t, Len(t), << nn >>), n |-> nn + 1]
        ELSE IF Len(t) = 0
        THEN [exc |-> "ValueError", tables |-> t, n |-> nn]
        ELSE IF ~ DictHas(t, sel)
        THEN [exc |-> "KeyError", tables |-> t, n |-> nn]
        ELSE [exc |-> "none",
              tables |-> DictSet(t, sel, Append(DictGet(t, sel), nn)),
              n |-> nn]

\* step that names a new table after its first customer.
step_key_n(a, t, nn, u, sel) ==
    LET w == get_wts(a, nn, t)
    IN  IF w.raises
        THEN [exc |-> "ZeroDivisionError", tables |-> t, n |-> nn]
        ELSE IF LeqFrac(u, w.new)
        THEN [exc |-> "none", tables |-> DictSet(t, nn, << nn >>), n |-> nn + 1]
        ELSE IF Len(t) = 0
        THEN [exc |-> "ValueError", tables |-> t, n |-> nn]
        ELSE IF ~ DictHas(t, sel)
        THEN [exc |-> "KeyError", tables |-> t, n |-> nn]
        ELSE [exc |-> "none",
              tables |-> DictSet(t, sel, Append(DictGet(t, sel), nn)),
              n |-> nn + 1]

\* step whose join branch assigns the table anew instead of appending.
step_replace(a, t, nn, u, sel) ==
    LET w == get_wts(a, nn, t)
    IN  IF w.raises
        THEN [exc |-> "ZeroDivisionError", tables |-> t, n |-> nn]
        ELSE IF LeqFrac(u, w.new)
        THEN [exc |-> "none", tables |-> DictSet(t, Len(t), << nn >>), n |-> nn + 1]
        ELSE IF Len(t) = 0
        THEN [exc |-> "ValueError", tables |-> t, n |-> nn]
        ELSE IF ~ DictHas(t, sel)
        THEN [exc |-> "KeyError", tables |-> t, n |-> nn]
        ELSE [exc |-> "none",
              tables |-> DictSet(t, sel, << nn >>),
              n |-> nn + 1]

\* step(self): one seating.  u is the value of np.random.random(), sel the
\* value np.random.choice returns when it is asked.  The result names the
\* exception raised, if any, and the fields the step assigns.
step(a, t, nn, u, sel) ==
    LET w == get_wts(a, nn, t)
    IN  IF w.raises
        THEN [exc |-> "ZeroDivisionError", tables |-> t, n |-> nn]
        ELSE IF LeqFrac(u, w.new)
        THEN [exc |-> "none", tables |-> DictSet(t, Len(t), << nn >>), n |-> nn + 1]
        ELSE IF Len(t) = 0
        THEN [exc |-> "ValueError", tables |-> t, n |-> nn]
        ELSE IF ~ DictHas(t, sel)
        THEN [exc |-> "KeyError", tables |-> t, n |-> nn]
        ELSE [exc |-> "none",
              tables |-> DictSet(t, sel, Append(DictGet(t, sel), nn)),
              n |-> nn + 1]

\* Values np.random.choice(np.arange(len(tables)), p=probs) can return: the
\* indices of positive probability (any index when there is none to ask for).
SelVals(a, nn, t) ==
    LET w == get_wts(a, nn, t)
    IN  IF Len(t) = 0 THEN {0}
        ELSE { i \in 0..(Len(t) - 1) : w.probs[i + 1][1] > 0 }

\* reset that starts the whole object afresh.
reset_all(self) ==
    [self EXCEPT !.datapoints = NoneDP, !.tables = <<>>, !.history = <<>>, !.n = 1]

\* reset(): self.datapoints = None, on the object as a record of its fields.
reset(self) == [self EXCEPT !.datapoints = NoneDP]

Self == [alpha |-> alpha, tables |-> tables, history |-> history, n |-> n,
         datapoints |-> datapoints]

\* The model stops at MaxCustomers seatings, begun or completed: a call is
\* made only when its k iterations fit.
Room(k) == /\ (n - 1) + k <= MaxCustomers
           /\ Len(history) + k <= MaxCustomers

\* A call of iter(niter) from outside enters the loop of iter().
iter(niter) ==
    /\ pc = "idle"
    /\ Room(ArangeLen(niter))
    /\ pc' = "iter"
    /\ todo' = ArangeLen(niter)
    /\ call' = [op |-> "iter", arg |-> niter, reset |-> FALSE]
    /\ err' = "none"
    /\ ret' = NoRet
    /\ priorCalls' = <<>>
    /\ samplerCalls' = <<>>
    /\ UNCHANGED << anims, alpha, tables, history, n, datapoints, last >>

\* The loop of iter() with the snapshot taken after step(self).
IterLoop_snapshot_after ==
    /\ pc = "iter"
    /\ todo > 0
    /\ \E u \in UVals, sel \in SelVals(alpha, n, tables) :
          LET r == step(alpha, tables, n, u, sel)
          IN  /\ history' = Append(history, get_table_dict(r.tables))
              /\ tables' = r.tables
              /\ n' = r.n
              /\ err' = r.exc
              /\ pc' = IF r.exc = "none" THEN "iter" ELSE "idle"
              /\ todo' = IF r.exc = "none" THEN todo - 1 ELSE 0
              /\ call' = IF r.exc = "none" THEN call ELSE NoCall
              /\ last' = IF r.exc = "none" THEN last ELSE call.op
    /\ UNCHANGED << anims, alpha, datapoints, ret, priorCalls, samplerCalls >>

\* The loop of iter() appending the live table dict itself, so that every
\* entry of history shows the tables as they are now.
IterLoop_alias ==
    /\ pc = "iter"
    /\ todo > 0
    /\ \E u \in UVals, sel \in SelVals(alpha, n, tables) :
          LET r == step(alpha, tables, n, u, sel)
          IN  /\ history' = [i \in 1..(Len(history) + 1) |-> get_table_dict(r.tables)]
              /\ tables' = r.tables
              /\ n' = r.n
              /\ err' = r.exc
              /\ pc' = IF r.exc = "none" THEN "iter" ELSE "idle"
              /\ todo' = IF r.exc = "none" THEN todo - 1 ELSE 0
              /\ call' = IF r.exc = "none" THEN call ELSE NoCall
              /\ last' = IF r.exc = "none" THEN last ELSE call.op
    /\ UNCHANGED << anims, alpha, datapoints, ret, priorCalls, samplerCalls >>

\* One iteration of the loop of iter(): the snapshot, then step(self).  An
\* exception of step ends the call, and the call of sample() around it.
IterLoop ==
    /\ pc = "iter"
    /\ todo > 0
    /\ \E u \in UVals, sel \in SelVals(alpha, n, tables) :
          LET r == step(alpha, tables, n, u, sel)
          IN  /\ history' = Append(history, get_table_dict(tables))
              /\ tables' = r.tables
              /\ n' = r.n
              /\ err' = r.exc
              /\ pc' = IF r.exc = "none" THEN "iter" ELSE "idle"
              /\ todo' = IF r.exc = "none" THEN todo - 1 ELSE 0
              /\ call' = IF r.exc = "none" THEN call ELSE NoCall
              /\ last' = IF r.exc = "none" THEN last ELSE call.op
    /\ UNCHANGED << anims, alpha, datapoints, ret, priorCalls, samplerCalls >>

\* The loop of iter() is over: return self, to the caller or into sample().
IterReturn ==
    /\ pc = "iter"
    /\ todo = 0
    /\ pc' = IF call.op = "sample" THEN "generate" ELSE "idle"
    /\ ret' = IF call.op = "sample" THEN NoRet ELSE [kind |-> "self"]
    /\ call' = IF call.op = "sample" THEN call ELSE NoCall
    /\ last' = IF call.op = "sample" THEN last ELSE "iter"
    /\ UNCHANGED << anims, alpha, tables, history, n, datapoints, todo, err,
                    priorCalls, samplerCalls >>

\* A call of get_wts() from outside.
GetWts ==
    /\ pc = "idle"
    /\ LET w == get_wts(alpha, n, tables)
       IN  /\ err' = IF w.raises THEN "ZeroDivisionError" ELSE "none"
           /\ ret' = IF w.raises THEN NoRet
                     ELSE [kind |-> "wts", new |-> w.new, probs |-> w.probs]
    /\ priorCalls' = <<>>
    /\ samplerCalls' = <<>>
    /\ last' = "get_wts"
    /\ UNCHANGED << anims, alpha, tables, history, n, datapoints, pc, todo, call >>

\* A call of reset() from outside.
Reset ==
    /\ pc = "idle"
    /\ LET s == reset(Self)
       IN  /\ alpha' = s.alpha
           /\ tables' = s.tables
           /\ history' = s.history
           /\ n' = s.n
           /\ datapoints' = s.datapoints
    /\ err' = "none"
    /\ ret' = NoRet
    /\ priorCalls' = <<>>
    /\ samplerCalls' = <<>>
    /\ last' = "reset"
    /\ UNCHANGED << anims, pc, todo, call >>

\* ---------------------------------------------------------------- animate
\* Frame indices FuncAnimation hands to its callback for frames=self.n.
AnimFrames(nn) == 0..(nn - 1)

\* anim_history(idx) reads self.history[idx], IndexError past the end, and
\* draws one bar for each name the call of animate() found, of height 0 for a
\* table the snapshot does not have.
anim_history(h, names, idx) ==
    IF idx >= Len(h)
    THEN [exc |-> "IndexError", bars |-> <<>>]
    ELSE LET state == h[idx + 1]
         IN  [exc |-> "none",
              bars |-> [i \in 1..Len(names) |->
                          IF DictHas(state, names[i])
                          THEN DictGet(state, names[i]) ELSE 0]]

\* The sequence s without its i-th element.
RemoveAt(s, i) == [j \in 1..(Len(s) - 1) |-> IF j < i THEN s[j] ELSE s[j + 1]]

\* A call of ChineseRestaurantProcess.animate() from outside: it reads the
\* table names, builds a new FuncAnimation with frames=self.n and returns it.
\* No frame is drawn by the call, and the animations made earlier go on.
animate ==
    /\ pc = "idle"
    /\ Len(anims) < MaxAnims
    /\ anims' = Append(anims, [frames |-> n,
                               names |-> get_table_names(tables),
                               drawn |-> FALSE, next |-> 0])
    /\ ret' = [kind |-> "FuncAnimation"]
    /\ err' = "none"
    /\ last' = "animate"
    /\ priorCalls' = <<>>
    /\ samplerCalls' = <<>>
    /\ UNCHANGED << alpha, tables, history, n, datapoints, pc, todo, call >>

\* An animation starts (the event loop of plt.show(), or anim.save): as
\* animate() gives FuncAnimation no init_func, the first item of the frame
\* sequence is drawn once before the stepping begins, and the frame counter
\* stays at 0. The run ends here if the callback raises.
AnimInitDraw ==
    /\ pc = "idle"
    /\ \E a \in 1..Len(anims) :
          /\ ~anims[a].drawn
          /\ AnimFrames(anims[a].frames) # {}
          /\ LET first == CHOOSE idx \in AnimFrames(anims[a].frames) :
                              \A other \in AnimFrames(anims[a].frames) :
                                  idx <= other
                 r == anim_history(history, anims[a].names, first)
             IN  /\ err' = r.exc
                 /\ ret' = [kind |-> "frame", idx |-> first, bars |-> r.bars]
                 /\ anims' = IF r.exc # "none"
                             THEN RemoveAt(anims, a)
                             ELSE [anims EXCEPT ![a].drawn = TRUE]
    /\ last' = "anim_history"
    /\ UNCHANGED << alpha, tables, history, n, datapoints, pc, todo, call,
                    priorCalls, samplerCalls >>

\* An animation draws its next frame: the callback reads the history as it
\* is now, against the frame count fixed when its animate() was called. The
\* run ends with the last frame or with the exception of the callback.
AnimFrame ==
    /\ pc = "idle"
    /\ \E a \in 1..Len(anims) :
          /\ anims[a].drawn
          /\ anims[a].next \in AnimFrames(anims[a].frames)
          /\ LET r == anim_history(history, anims[a].names, anims[a].next)
             IN  /\ err' = r.exc
                 /\ ret' = [kind |-> "frame", idx |-> anims[a].next,
                            bars |-> r.bars]
                 /\ anims' = IF \/ r.exc # "none"
                                \/ anims[a].next + 1 = anims[a].frames
                             THEN RemoveAt(anims, a)
                             ELSE [anims EXCEPT ![a].next = @ + 1]
    /\ last' = "anim_history"
    /\ UNCHANGED << alpha, tables, history, n, datapoints, pc, todo, call,
                    priorCalls, samplerCalls >>

\* ---------------------------------------------------------------- sample
\* The caller's sampler: one observation for a parameter, e its own randomness.
sampler(param, e) == 10 * param + e

\* np.zeros(k).
Zeros(k) == [i \in 1..k |-> 0]

\* Length of the array sample() allocates: np.zeros(self.n).
AllocLen(nn) == nn

\* a with x put in before position j.
InsertAt(a, j, x) ==
    [i \in 1..(Len(a) + 1) |-> IF i < j THEN a[i] ELSE IF i = j THEN x ELSE a[i - 1]]

\* np.random.shuffle(a): the arrays it can leave in a, every order of the
\* elements of a.
RECURSIVE shuffle(_)
shuffle(a) ==
    IF a = <<>> THEN { <<>> }
    ELSE { InsertAt(q, j, Head(a)) : q \in shuffle(Tail(a)), j \in 1..Len(a) }

Min(a, b) == IF a < b THEN a ELSE b

\* The loops of sample() without `offset += table_size`: every table is
\* written from position 0.
RECURSIVE Fill_no_offset(_, _, _, _, _, _, _)
Fill_no_offset(i, offset, dp, log, params, sizes, outs) ==
    IF i > Min(Len(params), Len(sizes)) THEN [dp |-> dp, log |-> log]
    ELSE LET size == sizes[i]
             val(ii) == sampler(params[i], outs[Len(log) + ii + 1])
             dp2 == [j \in 1..Len(dp) |->
                       IF (j - 1 >= offset) /\ (j - 1 < offset + size)
                       THEN val(j - 1 - offset) ELSE dp[j]]
             log2 == log \o [k \in 1..size |->
                       [pos |-> offset + k - 1, param |-> params[i], out |-> val(k - 1)]]
         IN  Fill_no_offset(i + 1, offset, dp2, log2, params, sizes, outs)

\* The loops of sample() over zip(params, table sizes), from pair i on: for
\* each pair, table_size calls of sampler(param) written at offset + ii, then
\* offset += table_size.  outs[c] is the randomness of the c-th call of
\* sampler; log lists the calls made so far.
RECURSIVE Fill(_, _, _, _, _, _, _)
Fill(i, offset, dp, log, params, sizes, outs) ==
    IF i > Min(Len(params), Len(sizes)) THEN [dp |-> dp, log |-> log]
    ELSE LET size == sizes[i]
             val(ii) == sampler(params[i], outs[Len(log) + ii + 1])
             dp2 == [j \in 1..Len(dp) |->
                       IF (j - 1 >= offset) /\ (j - 1 < offset + size)
                       THEN val(j - 1 - offset) ELSE dp[j]]
             log2 == log \o [k \in 1..size |->
                       [pos |-> offset + k - 1, param |-> params[i], out |-> val(k - 1)]]
         IN  Fill(i + 1, offset + size, dp2, log2, params, sizes, outs)

\* sample whose reset starts the process afresh as well.
sample_restarts(sample_size, rst) ==
    /\ pc = "idle"
    /\ Room(ArangeLen(sample_size))
    /\ LET s == IF rst /\ ~ datapoints.isNone THEN reset_all(Self) ELSE Self
       IN  /\ alpha' = s.alpha
           /\ tables' = s.tables
           /\ history' = s.history
           /\ n' = s.n
           /\ datapoints' = s.datapoints
    /\ pc' = "iter"
    /\ todo' = ArangeLen(sample_size)
    /\ call' = [op |-> "sample", arg |-> sample_size, reset |-> rst]
    /\ err' = "none"
    /\ ret' = NoRet
    /\ priorCalls' = <<>>
    /\ samplerCalls' = <<>>
    /\ UNCHANGED << last, anims >>

\* A call of sample(sample_size, reset) from outside: the optional reset(),
\* then self.iter(sample_size).
sample(sample_size, rst) ==
    /\ pc = "idle"
    /\ Room(ArangeLen(sample_size))
    /\ LET s == IF rst /\ ~ datapoints.isNone THEN reset(Self) ELSE Self
       IN  /\ alpha' = s.alpha
           /\ tables' = s.tables
           /\ history' = s.history
           /\ n' = s.n
           /\ datapoints' = s.datapoints
    /\ pc' = "iter"
    /\ todo' = ArangeLen(sample_size)
    /\ call' = [op |-> "sample", arg |-> sample_size, reset |-> rst]
    /\ err' = "none"
    /\ ret' = NoRet
    /\ priorCalls' = <<>>
    /\ samplerCalls' = <<>>
    /\ UNCHANGED << last, anims >>

\* The rest of sample() asking param_prior for the first table only.
Generate_first_param ==
    /\ pc = "generate"
    /\ LET ntables == Len(tables)
           sizes == get_table_sizes(tables)
       IN  \E params \in [1..ntables -> ParamVals],
              outs \in [1..SumSeq(sizes) -> Noise] :
              LET f == Fill(1, 0, Zeros(AllocLen(n)), <<>>, params, sizes, outs)
              IN  /\ \E shuffled \in shuffle(f.dp) :
                        datapoints' = [isNone |-> FALSE, arr |-> shuffled]
                  /\ priorCalls' = [i \in 1..Min(1, ntables) |-> [idx |-> i - 1, param |-> params[i]]]
                  /\ samplerCalls' = f.log
    /\ pc' = "idle"
    /\ call' = NoCall
    /\ last' = "sample"
    /\ UNCHANGED << anims, alpha, tables, history, n, todo, err, ret >>

\* The rest of sample() after self.iter() returned: the parameters, the
\* array, the shuffle, the assignment to self.datapoints.
Generate ==
    /\ pc = "generate"
    /\ LET ntables == Len(tables)
           sizes == get_table_sizes(tables)
       IN  \E params \in [1..ntables -> ParamVals],
              outs \in [1..SumSeq(sizes) -> Noise] :
              LET f == Fill(1, 0, Zeros(AllocLen(n)), <<>>, params, sizes, outs)
              IN  /\ \E shuffled \in shuffle(f.dp) :
                        datapoints' = [isNone |-> FALSE, arr |-> shuffled]
                  /\ priorCalls' = [i \in 1..ntables |-> [idx |-> i - 1, param |-> params[i]]]
                  /\ samplerCalls' = f.log
    /\ pc' = "idle"
    /\ call' = NoCall
    /\ last' = "sample"
    /\ UNCHANGED << anims, alpha, tables, history, n, todo, err, ret >>

\* -------------------------------------------------------- specifications
\* __init__: the fields as the constructor leaves them, for the alpha given.
InitWith(alphas) ==
    /\ alpha \in alphas
    /\ tables = <<>>
    /\ history = <<>>
    /\ n = 1
    /\ datapoints = NoneDP
    /\ pc = "idle"
    /\ todo = 0
    /\ call = NoCall
    /\ last = "__init__"
    /\ err = "none"
    /\ ret = NoRet
    /\ priorCalls = <<>>
    /\ samplerCalls = <<>>
    /\ anims = <<>>

Init == InitWith(AlphaPos)

InitAny == InitWith(AlphaAny)

Next ==
    \/ \E niter \in (-1)..MaxCustomers : iter(niter)
    \/ IterLoop
    \/ IterReturn
    \/ \E size \in (-1)..MaxCustomers, rst \in BOOLEAN : sample(size, rst)
    \/ Generate
    \/ Reset
    \/ GetWts

\* A mixture sampler built with a concentration parameter alpha > 0.
Spec == Init /\ [][Next]_vars

\* A mixture sampler built with any number as concentration parameter.
SpecAnyAlpha == InitAny /\ [][Next]_vars

\* The calls of a ChineseRestaurantProcess, the base class on its own, and
\* the frames of the animations its animate() returned. The fields are the
\* four of genVars; datapoints, which the base class does not have, stays
\* None.
NextProcess ==
    \/ \E niter \in (-1)..MaxCustomers : iter(niter)
    \/ IterLoop
    \/ IterReturn
    \/ GetWts
    \/ animate
    \/ AnimInitDraw
    \/ AnimFrame

\* A partition generator ChineseRestaurantProcess(alpha), alpha > 0, that is
\* animated.
SpecProcess == Init /\ [][NextProcess]_vars


\* ----------------------------------------------------------------- claims
\* The customers of all tables, table after table.
RECURSIVE Flatten(_)
Flatten(t) == IF t = <<>> THEN <<>> ELSE Head(t).val \o Flatten(Tail(t))

\* A call of sample() has just returned.
AfterSample == pc = "idle" /\ last = "sample" /\ err = "none"

\* C1: after a call of sample() the length of datapoints is the number of
\* customers seated so far, n - 1.
C1_LengthIsCustomersSeated ==
    AfterSample => Len(datapoints.arr) = n - 1

\* C2: after a call of sample() every element of datapoints is a value the
\* sampler returned in that call, for a parameter param_prior returned in
\* that call.
C2_EveryValueSampled ==
    AfterSample =>
        \A i \in 1..Len(datapoints.arr) :
            \E c \in 1..Len(samplerCalls) :
                /\ samplerCalls[c].out = datapoints.arr[i]
                /\ \E q \in 1..Len(priorCalls) :
                      priorCalls[q].param = samplerCalls[c].param

\* C3: the members of all tables together are the customers 1 .. n-1, each
\* of them once.
C3_TablesPartitionCustomers ==
    LET all == Flatten(tables)
    IN  /\ Len(all) = n - 1
        /\ Range(all) = 1..(n - 1)

C3_Witness ==
    /\ pc = "idle"
    /\ n = 4
    /\ Len(tables) = 2

\* C4: the sizes get_table_sizes() returns add up to n - 1.
C4_SizesSumToSeated == SumSeq(get_table_sizes(tables)) = n - 1

C4_Witness ==
    /\ pc = "idle"
    /\ SumSeq(get_table_sizes(tables)) = 3
    /\ \E i \in 1..Len(tables) : Len(tables[i].val) = 2

\* C5: history has one entry for each seating done, n - 1 of them, and the
\* sizes recorded in history[i] (counted from 0) add up to i.
C5_HistoryCounts ==
    /\ Len(history) = n - 1
    /\ \A i \in 0..(Len(history) - 1) :
          SumSeq([k \in 1..Len(history[i + 1]) |-> history[i + 1][k].val]) = i

C5_Witness ==
    /\ pc = "idle"
    /\ last = "sample"
    /\ Len(history) = 3
    /\ Len(history[3]) = 2

\* C6: a seating made while there is no table and n = 1 opens table 0 with
\* customer 1 alone, whatever the draw; it raises nothing and joins nothing.
C6_FirstCustomerOpensTable ==
    [][ (n = 1 /\ tables = <<>> /\ Len(history') > Len(history))
          => /\ err' = "none"
             /\ n' = 2
             /\ tables' = << [key |-> 0, val |-> << 1 >>] >> ]_vars

C6_Witness ==
    /\ pc = "idle"
    /\ last = "iter"
    /\ n = 2
    /\ Len(history) = 1
    /\ tables = << [key |-> 0, val |-> << 1 >>] >>

\* C7: an object built with alpha <= 0 does not exist: the constructor ended
\* with InvalidParameterError.
C7_NonPositiveAlphaRejected ==
    (alpha[1] <= 0) => err = "InvalidParameterError"

\* C8: a call iter(niter) with niter < 0 ends with InvalidArgumentError.
C8_NegativeStepsRejected ==
    [][ (pc = "iter" /\ call.op = "iter" /\ call.arg < 0 /\ pc' = "idle")
          => err' = "InvalidArgumentError" ]_vars

\* C9: get_wts() returns no weights while there is no table.
C9_NoWeightsWithoutTables ==
    (Len(tables) = 0) => ret.kind # "wts"

\* C10: a call of reset() leaves datapoints cleared and alpha, tables,
\* history and n as they were.
C10_ResetClearsDatapointsOnly ==
    [][ Reset => (datapoints' = NoneDP /\ UNCHANGED genVars) ]_vars

C10_Witness ==
    /\ pc = "idle"
    /\ last = "reset"
    /\ datapoints.isNone
    /\ Len(tables) >= 2
    /\ Len(history) = 3

\* Every table of t is a table of t2, same key, same place, and whoever sat
\* at it still sits there.
SameSeats(t, t2) ==
    /\ Len(t) <= Len(t2)
    /\ \A i \in 1..Len(t) : /\ t2[i].key = t[i].key
                            /\ IsPrefix(t[i].val, t2[i].val)

ResetSample(c) == c.op = "sample" /\ c.reset

\* C11: no step of a call sample(k, reset=True) restarts the process: the
\* history stays a prefix of the new history, the customers seated stay at
\* their tables, and n reaches its value at the call plus the k iterations
\* of np.arange(k).
C11_ResetSampleExtends ==
    [][ (ResetSample(call) \/ ResetSample(call'))
          => /\ IsPrefix(history, history')
             /\ SameSeats(tables, tables')
             /\ n' + todo' = n + (IF pc = "idle" THEN ArangeLen(call'.arg) ELSE todo) ]_vars

C11_Witness ==
    /\ pc = "generate"
    /\ ResetSample(call)
    /\ call.arg = 1
    /\ last = "sample"
    /\ datapoints.isNone
    /\ n = 3

\* The sum of the fractions of s, as a fraction.
RECURSIVE FracSum(_)
FracSum(s) ==
    IF s = <<>> THEN << 0, 1 >>
    ELSE LET r == FracSum(Tail(s))
         IN  << Head(s)[1] * r[2] + r[1] * Head(s)[2], Head(s)[2] * r[2] >>

\* C13: with at least one table, get_wts() returns one probability for each
\* table, in the order of the tables, the i-th equal to the size of table i
\* divided by n - 1, and the probabilities add up to 1.
C13_ExistingWeights ==
    (Len(tables) > 0) =>
        LET w == get_wts(alpha, n, tables)
        IN  /\ ~ w.raises
            /\ Len(w.probs) = Len(tables)
            /\ \A i \in 1..Len(tables) :
                  /\ w.probs[i][2] # 0
                  /\ w.probs[i][1] * (n - 1) = Len(tables[i].val) * w.probs[i][2]
            /\ FracSum(w.probs)[2] # 0
            /\ FracSum(w.probs)[1] = FracSum(w.probs)[2]

C13_Witness ==
    /\ pc = "idle"
    /\ ret.kind = "wts"
    /\ Len(ret.probs) = 2
    /\ n = 4

\* 0 < f and f < 1 for a fraction f = <<num, den>>, den # 0.
FracPos(f) == f[1] * f[2] > 0

FracBelowOne(f) == IF f[2] > 0 THEN f[1] < f[2] ELSE f[1] > f[2]

\* C14: whenever get_wts() returns, its first value p_new is strictly
\* between 0 and 1.
C14_NewWeightStrictlyInside ==
    (ret.kind = "wts") => (FracPos(ret.new) /\ FracBelowOne(ret.new))

\* The table ids of t are 0 .. k-1 in this order, and a table listed earlier
\* was opened earlier (its first customer came earlier).
DenseIds(t) ==
    /\ get_table_names(t) = [i \in 1..Len(t) |-> i - 1]
    /\ \A i, j \in 1..Len(t) : (i < j) => (Head(t[i].val) < Head(t[j].val))

\* C15: after every step the table ids are 0 .. k-1 in the order the tables
\* were opened; no table disappears or changes its id; a step that adds a
\* table gives it the id k, the number of tables before the step, after the
\* others.
C15_DenseIdsInCreationOrder ==
    [][ /\ DenseIds(tables')
        /\ Len(tables') >= Len(tables)
        /\ \A i \in 1..Len(tables) : tables'[i].key = tables[i].key
        /\ (Len(tables') > Len(tables))
              => (tables' = Append(tables, [key |-> Len(tables), val |-> << n >>])) ]_vars

C15_Witness ==
    /\ pc = "idle"
    /\ get_table_names(tables) = << 0, 1, 2 >>

\* C16: the entries of history never change; an entry is added only when
\* exactly Len(history) = n - 1 customers are seated, and it is the map of
\* table sizes of that moment, before the seating of the same iteration.
C16_SnapshotBeforeSeating ==
    [][ /\ IsPrefix(history, history')
        /\ (Len(history') > Len(history))
              => /\ Len(history) = n - 1
                 /\ n' = n + 1
                 /\ history' = Append(history,
                        [i \in 1..Len(tables) |->
                            [key |-> tables[i].key, val |-> Len(tables[i].val)]]) ]_vars

C16_Witness ==
    /\ pc = "idle"
    /\ history = << << >>,
                    << [key |-> 0, val |-> 1] >>,
                    << [key |-> 0, val |-> 2] >> >>
    /\ Len(tables) = 2

\* The step opens one table for customer n alone.
OpensTable == tables' = Append(tables, [key |-> Len(tables), val |-> << n >>])

\* The step adds customer n at the end of one table and touches no other.
JoinsTable ==
    \E i \in 1..Len(tables) : tables' = [tables EXCEPT ![i].val = Append(@, n)]

\* C17: a step that seats (one that changes tables or n, or adds a
\* snapshot) either opens one table for customer n alone or adds customer n
\* to one table, never both, and raises n by 1; no step of any kind removes
\* a table or a customer from a table.
C17_SeatingOpensOrJoins ==
    [][ /\ SameSeats(tables, tables')
        /\ n' >= n
        /\ (tables' # tables \/ n' # n \/ Len(history') > Len(history))
              => /\ n' = n + 1
                 /\ OpensTable \/ JoinsTable
                 /\ ~ (OpensTable /\ JoinsTable) ]_vars

C17_Witness ==
    /\ pc = "idle"
    /\ n = 4
    /\ tables = << [key |-> 0, val |-> << 1, 3 >>], [key |-> 1, val |-> << 2 >>] >>

\* C18: param_prior is not called while a call still has seatings to do or
\* has not reached the end of iter(); when sample() has returned it has been
\* called once for each table there is then, with the arguments 0, 1, ...,
\* k-1 in this order.
C18_OneParameterPerTable ==
    /\ (pc # "idle") => (priorCalls = <<>>)
    /\ AfterSample =>
          /\ Len(priorCalls) = Len(tables)
          /\ \A i \in 1..Len(priorCalls) : priorCalls[i].idx = i - 1

C18_Witness ==
    /\ AfterSample
    /\ n = 4
    /\ Len(priorCalls) = 2
    /\ priorCalls[1].param # priorCalls[2].param

\* Customers at the first i tables of t.
CumSize(t, i) == SumSeq([j \in 1..i |-> Len(t[j].val)])

\* C19: when sample() has returned, sampler has been called n - 1 times,
\* the c-th call written at position c - 1 of the array; the calls for
\* table i, as many as it has customers, follow those for the tables before
\* it and carry the parameter param_prior returned for table i.
C19_OneSamplePerCustomer ==
    AfterSample =>
        /\ Len(samplerCalls) = n - 1
        /\ Len(priorCalls) = Len(tables)
        /\ \A c \in 1..Len(samplerCalls) :
              /\ samplerCalls[c].pos = c - 1
              /\ samplerCalls[c].pos < Len(datapoints.arr)
        /\ \A i \in 1..Len(tables) :
              \A c \in (CumSize(tables, i - 1) + 1)..CumSize(tables, i) :
                  /\ c <= Len(samplerCalls)
                  /\ samplerCalls[c].param = priorCalls[i].param

C19_Witness ==
    /\ AfterSample
    /\ Len(samplerCalls) = 3
    /\ get_table_sizes(tables) = << 2, 1 >>
    /\ samplerCalls[1].param # samplerCalls[3].param

\* C20: every frame index the animation made by animate() hands to its
\* callback is an index of history: the callback is never given idx >=
\* len(history).
C20_FramesWithinHistory ==
    (ret.kind = "frame") => (ret.idx < Len(history))

====
